---- MODULE Spec2Model ----
(***************************************************************************)
(* Model of twitter.py: the rate-limit coordinator check_rate_limit and    *)
(* the three fetch operations user_timeline, users_lookup and users_show.  *)
(* One action is one pass through the body of an operation's while loop:   *)
(* the loop test, req.get, the branch taken on r.status_code and the       *)
(* check_rate_limit call of that branch.                                   *)
(***************************************************************************)
EXTENDS Integers, Sequences, FiniteSets, TLC

\* ---- program constants (twitter.py:14-16) ----
RESET_BUFFER == 60
RATE_LIMIT_BUFFER == 5
FAILURE_RETRY == 60

\* ---- bounds of the model ----
\* the retry ceiling, 24 * 60 in twitter.py:17; scaled down so that the
\* exhaustion of the retries is reached
MAX_RETRY == 3
\* tweet ids and user ids served by the API are 1..MaxId
MaxId == 2
\* longest page / profile list served in one response
MaxPage == 2

\* ---- the responses req.get can deliver ----
StatusCodes == {200, 400, 401, 403, 404, 500}

HeaderNames == {"x-rate-limit-remaining", "date", "x-rate-limit-reset"}

\* r.headers: a mapping that holds any subset S of the three headers, the
\* value of header n (after int() / times.to_unix(times.parse())) in V[n]
HeadersOver(V) ==
    { h \in UNION { [S -> UNION { V[n] : n \in HeaderNames }] : S \in SUBSET HeaderNames } :
        \A n \in DOMAIN h : h[n] \in V[n] }

\* headers of the responses served to the three operations: the Date header
\* is 1000, the window resets 100 s later or reset 200 s ago; a response
\* carries the rate-limit headers together or not at all
OpHeaderValues ==
    [n \in HeaderNames |->
        CASE n = "x-rate-limit-remaining" -> {3, 6}
          [] n = "date" -> {1000}
          [] n = "x-rate-limit-reset" -> {800, 1100}]

Headers ==
    { h \in HeadersOver(OpHeaderValues) :
        DOMAIN h = HeaderNames \/ DOMAIN h = {"date"} }

\* headers check_rate_limit is called with when it is exercised on its own
CoordHeaderValues ==
    [n \in HeaderNames |->
        CASE n = "x-rate-limit-remaining" -> {0, 3, 5, 6, 7}
          [] n = "date" -> {1000, 1001}
          [] n = "x-rate-limit-reset" -> {800, 940, 1100}]

CoordHeaders == HeadersOver(CoordHeaderValues)

\* a tweet is an opaque mapping of which the code reads the "id" key only
Tweets == [id : 1..MaxId]

RECURSIVE SeqsUpTo(_, _)
SeqsUpTo(S, n) ==
    IF n = 0 THEN {<<>>}
    ELSE LET shorter == SeqsUpTo(S, n - 1)
         IN shorter \cup { Append(s, x) : s \in {t \in shorter : Len(t) = n - 1}, x \in S }

\* r.json() of a timeline response: a list of tweets
Pages == SeqsUpTo(Tweets, MaxPage)

\* r.json() of a users/lookup response: a list of profiles
Profiles == [id : 1..MaxId]
ProfileLists == SeqsUpTo(Profiles, MaxPage)

\* r.json() of a users/lookup response whose status is not 200
ErrorLists == SeqsUpTo(Profiles, 1)

\* r.json() of a users/show response: a profile or an error payload
ShowBodies == {"profile", "errors"}

Ops == {"user_timeline", "users_lookup", "users_show"}

VARIABLES
    op,       \* the operation being run
    pc,       \* "loop": at the while test; "returned"; "fatal": SystemExit
              \* raised; "error": another exception left the operation
    tries,    \* tries
    tweets,   \* tweets (user_timeline)
    ids,      \* ids (user_timeline)
    tcount,   \* tcount (user_timeline)
    max_id,   \* params["max_id"] as a set: {} while the key is not set
    r,        \* the last response received
    crl,      \* what check_rate_limit did in the last pass
    ret,      \* the value returned to the caller
    nreq,     \* number of req.get calls made so far
    served,   \* history: the tweets served on 200 pages
    order,    \* history: ids served on 200 pages, in first-seen order
    streak    \* history: consecutive responses with status other than 200

vars == <<op, pc, tries, tweets, ids, tcount, max_id, r, crl, ret, nreq,
          served, order, streak>>

\* ---- check_rate_limit (twitter.py:22-49) ----
\* sleeps: the arguments passed to sleep(), in order
\* logged: log.error was called;  raised: an exception left the function
NoCall == [called |-> FALSE, sleeps |-> <<>>, logged |-> FALSE, raised |-> FALSE]

\* header_failure without the sleep of twitter.py:49
header_failure_no_sleep ==
    [called |-> TRUE, sleeps |-> <<>>, logged |-> TRUE, raised |-> FALSE]

header_failure ==
    [called |-> TRUE, sleeps |-> <<FAILURE_RETRY>>, logged |-> TRUE, raised |-> FALSE]

\* time.sleep(d): a negative d raises (IOError / ValueError), which the
\* except KeyError clause does not catch
sleep(d) ==
    [called |-> TRUE, sleeps |-> <<d>>, logged |-> FALSE, raised |-> d < 0]

\* check_rate_limit with "<" for the "<=" of twitter.py:33
check_rate_limit_lt(h) ==
    IF "x-rate-limit-remaining" \notin DOMAIN h THEN header_failure
    ELSE IF h["x-rate-limit-remaining"] < RATE_LIMIT_BUFFER
         THEN IF "date" \notin DOMAIN h THEN header_failure
              ELSE IF "x-rate-limit-reset" \notin DOMAIN h THEN header_failure
              ELSE sleep(h["x-rate-limit-reset"] - h["date"] + RESET_BUFFER)
         ELSE [called |-> TRUE, sleeps |-> <<>>, logged |-> FALSE, raised |-> FALSE]

check_rate_limit(h) ==
    IF "x-rate-limit-remaining" \notin DOMAIN h THEN header_failure
    ELSE IF h["x-rate-limit-remaining"] <= RATE_LIMIT_BUFFER
         THEN IF "date" \notin DOMAIN h THEN header_failure
              ELSE IF "x-rate-limit-reset" \notin DOMAIN h THEN header_failure
              ELSE sleep(h["x-rate-limit-reset"] - h["date"] + RESET_BUFFER)
         ELSE [called |-> TRUE, sleeps |-> <<>>, logged |-> FALSE, raised |-> FALSE]

\* ---- helpers ----
\* the largest element, for the min() of twitter.py:93
Max(S) == CHOOSE x \in S : \A y \in S : x >= y

Min(S) == CHOOSE x \in S : \A y \in S : x <= y

IdsOf(s) == { s[i].id : i \in DOMAIN s }

\* add_page without the "not in ids" test of twitter.py:83
RECURSIVE add_page_no_test(_, _, _)
add_page_no_test(tw, idset, page) ==
    IF page = <<>> THEN [tweets |-> tw, ids |-> idset]
    ELSE add_page_no_test(Append(tw, Head(page)), idset \cup {Head(page).id}, Tail(page))

\* add_page without the ids.add of twitter.py:85
RECURSIVE add_page_no_add(_, _, _)
add_page_no_add(tw, idset, page) ==
    IF page = <<>> THEN [tweets |-> tw, ids |-> idset]
    ELSE IF Head(page).id \notin idset
         THEN add_page_no_add(Append(tw, Head(page)), idset, Tail(page))
         ELSE add_page_no_add(tw, idset, Tail(page))

\* the for loop of twitter.py:82-85: the tweets of the page whose id is not
\* in ids are appended to tweets and their id is added to ids
RECURSIVE add_page(_, _, _)
add_page(tw, idset, page) ==
    IF page = <<>> THEN [tweets |-> tw, ids |-> idset]
    ELSE IF Head(page).id \notin idset
         THEN add_page(Append(tw, Head(page)), idset \cup {Head(page).id}, Tail(page))
         ELSE add_page(tw, idset, Tail(page))

\* history: ids in the order in which they were first served
RECURSIVE first_seen(_, _)
first_seen(o, page) ==
    IF page = <<>> THEN o
    ELSE first_seen(IF \E i \in DOMAIN o : o[i] = Head(page).id
                    THEN o ELSE o \o <<Head(page).id>>, Tail(page))

NoResponse == [status |-> 0, headers |-> <<>>, body |-> <<>>]

Init ==
    /\ op \in Ops
    /\ pc = "loop"
    /\ tries = 0
    /\ tweets = <<>>
    /\ ids = {}
    /\ tcount = 0
    /\ max_id = {}
    /\ r = NoResponse
    /\ crl = NoCall
    /\ ret = <<>>
    /\ nreq = 0
    /\ served = {}
    /\ order = <<>>
    /\ streak = 0

\* the tail shared by every branch that calls check_rate_limit(r): crl is
\* the outcome, and an exception raised inside it leaves the operation
AfterCheck(c, next_pc) == IF c.raised THEN "error" ELSE next_pc

\* ---- user_timeline (twitter.py:51-121) ----
\* twitter.py:78
timeline_while(t) == t < MAX_RETRY

\* timeline_return that counts the page as a failed try and loops
timeline_return_retry(tw) ==
    /\ pc' = "loop"
    /\ tries' = tries + 1
    /\ crl' = NoCall
    /\ UNCHANGED <<tcount, max_id, ret>>

\* twitter.py:88-89: no tweet was added, return
timeline_return(tw) ==
    /\ pc' = "returned"
    /\ ret' = tw
    /\ crl' = NoCall
    /\ UNCHANGED <<tcount, max_id, tries>>

\* timeline_continue without the "tries = 0" of twitter.py:94
timeline_continue_no_reset(h, idset) ==
    /\ tcount' = Cardinality(idset)
    /\ max_id' = {Min(idset)}
    /\ tries' = tries
    /\ crl' = check_rate_limit(h)
    /\ pc' = AfterCheck(crl', "loop")
    /\ UNCHANGED ret

\* twitter.py:90-96: count the tweets, move the cursor, reset tries, check the
\* rate limit and loop
timeline_continue(h, idset) ==
    /\ tcount' = Cardinality(idset)
    /\ max_id' = {Min(idset)}
    /\ tries' = 0
    /\ crl' = check_rate_limit(h)
    /\ pc' = AfterCheck(crl', "loop")
    /\ UNCHANGED ret

\* twitter.py:81-96
user_timeline_200(h, page) ==
    /\ op = "user_timeline" /\ pc = "loop" /\ timeline_while(tries)
    /\ r' = [status |-> 200, headers |-> h, body |-> page]
    /\ nreq' = nreq + 1
    /\ served' = served \cup { page[i] : i \in DOMAIN page }
    /\ order' = first_seen(order, page)
    /\ streak' = 0
    /\ LET new == add_page(tweets, ids, page)
       IN /\ tweets' = new.tweets
          /\ ids' = new.ids
          /\ IF Cardinality(new.ids) = tcount
             THEN timeline_return(new.tweets)
             ELSE timeline_continue(h, new.ids)
    /\ UNCHANGED op

\* twitter.py:98-104 (400) and twitter.py:113-118 (anything else)
user_timeline_retry(s, h) ==
    /\ op = "user_timeline" /\ pc = "loop" /\ timeline_while(tries)
    /\ s \notin {200, 401, 403, 404}
    /\ r' = [status |-> s, headers |-> h, body |-> <<>>]
    /\ nreq' = nreq + 1
    /\ streak' = streak + 1
    /\ crl' = check_rate_limit(h)
    /\ tries' = IF crl'.raised THEN tries ELSE tries + 1
    /\ pc' = AfterCheck(crl', "loop")
    /\ UNCHANGED <<op, tweets, ids, tcount, max_id, ret, served, order>>

\* twitter.py:106-111
user_timeline_absent(s, h) ==
    /\ op = "user_timeline" /\ pc = "loop" /\ timeline_while(tries)
    /\ s \in {401, 403, 404}
    /\ r' = [status |-> s, headers |-> h, body |-> <<>>]
    /\ nreq' = nreq + 1
    /\ streak' = streak + 1
    /\ crl' = check_rate_limit(h)
    /\ pc' = AfterCheck(crl', "returned")
    /\ ret' = IF crl'.raised THEN ret ELSE tweets
    /\ UNCHANGED <<op, tries, tweets, ids, tcount, max_id, served, order>>

\* user_timeline_exhausted handing the gathered tweets to the caller
user_timeline_exhausted_returns ==
    /\ op = "user_timeline" /\ pc = "loop" /\ ~timeline_while(tries)
    /\ pc' = "returned"
    /\ ret' = tweets
    /\ UNCHANGED <<op, tries, tweets, ids, tcount, max_id, r, crl, nreq,
                   served, order, streak>>

\* twitter.py:78, 120-121
user_timeline_exhausted ==
    /\ op = "user_timeline" /\ pc = "loop" /\ ~timeline_while(tries)
    /\ pc' = "fatal"
    /\ UNCHANGED <<op, tries, tweets, ids, tcount, max_id, r, crl, ret, nreq,
                   served, order, streak>>

user_timeline ==
    \/ \E h \in Headers, page \in Pages : user_timeline_200(h, page)
    \/ \E s \in StatusCodes, h \in Headers : user_timeline_retry(s, h)
    \/ \E s \in StatusCodes, h \in Headers : user_timeline_absent(s, h)
    \/ user_timeline_exhausted

\* ---- users_lookup (twitter.py:123-178) ----
\* the loop test with the ceiling included
lookup_while_le(t) == t <= MAX_RETRY

\* twitter.py:147
lookup_while(t) == t < MAX_RETRY

\* users_lookup_200 without the check_rate_limit call of twitter.py:152
users_lookup_200_no_check(h, body) ==
    /\ op = "users_lookup" /\ pc = "loop" /\ lookup_while(tries)
    /\ r' = [status |-> 200, headers |-> h, body |-> body]
    /\ nreq' = nreq + 1
    /\ streak' = 0
    /\ crl' = NoCall
    /\ pc' = "returned"
    /\ ret' = body
    /\ UNCHANGED <<op, tries, tweets, ids, tcount, max_id, served, order>>

\* twitter.py:150-153
users_lookup_200(h, body) ==
    /\ op = "users_lookup" /\ pc = "loop" /\ lookup_while(tries)
    /\ r' = [status |-> 200, headers |-> h, body |-> body]
    /\ nreq' = nreq + 1
    /\ streak' = 0
    /\ crl' = check_rate_limit(h)
    /\ pc' = AfterCheck(crl', "returned")
    /\ ret' = IF crl'.raised THEN ret ELSE body
    /\ UNCHANGED <<op, tries, tweets, ids, tcount, max_id, served, order>>

\* twitter.py:155-160
users_lookup_absent(s, h, body) ==
    /\ op = "users_lookup" /\ pc = "loop" /\ lookup_while(tries)
    /\ s \in {403, 404}
    /\ r' = [status |-> s, headers |-> h, body |-> body]
    /\ nreq' = nreq + 1
    /\ streak' = streak + 1
    /\ crl' = check_rate_limit(h)
    /\ pc' = AfterCheck(crl', "returned")
    /\ ret' = IF crl'.raised THEN ret ELSE <<>>
    /\ UNCHANGED <<op, tries, tweets, ids, tcount, max_id, served, order>>

\* twitter.py:162-168 (400) and twitter.py:170-175 (anything else)
users_lookup_retry(s, h, body) ==
    /\ op = "users_lookup" /\ pc = "loop" /\ lookup_while(tries)
    /\ s \notin {200, 403, 404}
    /\ r' = [status |-> s, headers |-> h, body |-> body]
    /\ nreq' = nreq + 1
    /\ streak' = streak + 1
    /\ crl' = check_rate_limit(h)
    /\ tries' = IF crl'.raised THEN tries ELSE tries + 1
    /\ pc' = AfterCheck(crl', "loop")
    /\ UNCHANGED <<op, tweets, ids, tcount, max_id, ret, served, order>>

\* twitter.py:147, 177-178
users_lookup_exhausted ==
    /\ op = "users_lookup" /\ pc = "loop" /\ ~lookup_while(tries)
    /\ pc' = "fatal"
    /\ UNCHANGED <<op, tries, tweets, ids, tcount, max_id, r, crl, ret, nreq,
                   served, order, streak>>

users_lookup ==
    \/ \E h \in Headers, b \in ProfileLists : users_lookup_200(h, b)
    \/ \E s \in StatusCodes, h \in Headers, b \in ErrorLists :
          users_lookup_absent(s, h, b)
    \/ \E s \in StatusCodes, h \in Headers, b \in ErrorLists :
          users_lookup_retry(s, h, b)
    \/ users_lookup_exhausted

\* ---- users_show (twitter.py:180-231) ----
\* the loop test with the ceiling included
show_while_le(t) == t <= MAX_RETRY

\* twitter.py:202
show_while(t) == t < MAX_RETRY

\* twitter.py:205-208
users_show_200(h, body) ==
    /\ op = "users_show" /\ pc = "loop" /\ show_while(tries)
    /\ r' = [status |-> 200, headers |-> h, body |-> body]
    /\ nreq' = nreq + 1
    /\ streak' = 0
    /\ crl' = check_rate_limit(h)
    /\ pc' = AfterCheck(crl', "returned")
    /\ ret' = IF crl'.raised THEN ret ELSE <<200, body>>
    /\ UNCHANGED <<op, tries, tweets, ids, tcount, max_id, served, order>>

\* twitter.py:210-213
users_show_absent(s, h, body) ==
    /\ op = "users_show" /\ pc = "loop" /\ show_while(tries)
    /\ s \in {403, 404}
    /\ r' = [status |-> s, headers |-> h, body |-> body]
    /\ nreq' = nreq + 1
    /\ streak' = streak + 1
    /\ crl' = check_rate_limit(h)
    /\ pc' = AfterCheck(crl', "returned")
    /\ ret' = IF crl'.raised THEN ret ELSE <<s, body>>
    /\ UNCHANGED <<op, tries, tweets, ids, tcount, max_id, served, order>>

\* twitter.py:215-221 (400) and twitter.py:223-228 (anything else)
users_show_retry(s, h, body) ==
    /\ op = "users_show" /\ pc = "loop" /\ show_while(tries)
    /\ s \notin {200, 403, 404}
    /\ r' = [status |-> s, headers |-> h, body |-> body]
    /\ nreq' = nreq + 1
    /\ streak' = streak + 1
    /\ crl' = check_rate_limit(h)
    /\ tries' = IF crl'.raised THEN tries ELSE tries + 1
    /\ pc' = AfterCheck(crl', "loop")
    /\ UNCHANGED <<op, tweets, ids, tcount, max_id, ret, served, order>>

\* users_show_exhausted spinning instead of raising SystemExit
users_show_exhausted_spins ==
    /\ op = "users_show" /\ pc = "loop" /\ ~show_while(tries)
    /\ UNCHANGED vars

\* twitter.py:202, 230-231
users_show_exhausted ==
    /\ op = "users_show" /\ pc = "loop" /\ ~show_while(tries)
    /\ pc' = "fatal"
    /\ UNCHANGED <<op, tries, tweets, ids, tcount, max_id, r, crl, ret, nreq,
                   served, order, streak>>

users_show ==
    \/ \E h \in Headers, b \in ShowBodies : users_show_200(h, b)
    \/ \E s \in StatusCodes, h \in Headers, b \in ShowBodies :
          users_show_absent(s, h, b)
    \/ \E s \in StatusCodes, h \in Headers, b \in ShowBodies :
          users_show_retry(s, h, b)
    \/ users_show_exhausted

Next == user_timeline \/ users_lookup \/ users_show

Spec == Init /\ [][Next]_vars

\* the operation runs in one thread that sleeps and requests only delay:
\* control does not stay at the head of the while loop for ever without a
\* pass of the loop being made
FairSpec ==
    /\ Init /\ [][Next]_vars
    /\ ([]<>(pc # "loop") \/ []<><<TRUE>>_vars)

\* raise SystemExit() (twitter.py:121, 178, 231) carries no argument: its code
\* is None, and the interpreter then ends the process with exit status 0
SystemExit_code == 0

\* ---- check_rate_limit called on its own with a response r ----
InitCoord ==
    /\ op = "check_rate_limit"
    /\ pc = "call"
    /\ tries \in 0..MAX_RETRY - 1
    /\ tweets = <<>>
    /\ ids = {}
    /\ tcount = 0
    /\ max_id = {}
    /\ r \in [status : StatusCodes, headers : CoordHeaders, body : {<<>>}]
    /\ crl = NoCall
    /\ ret = <<>>
    /\ nreq = 1
    /\ served = {}
    /\ order = <<>>
    /\ streak = 0

call_check_rate_limit ==
    /\ op = "check_rate_limit" /\ pc = "call"
    /\ crl' = check_rate_limit(r.headers)
    /\ pc' = AfterCheck(crl', "returned")
    /\ UNCHANGED <<op, tries, tweets, ids, tcount, max_id, r, ret, nreq,
                   served, order, streak>>

NextCoord == call_check_rate_limit

SpecCoord == InitCoord /\ [][NextCoord]_vars

\* ======================= properties =======================

\* the ids of a list of tweets, in list order
IdList(s) == [i \in DOMAIN s |-> s[i].id]

\* C1: when user_timeline returns on a 200 page, the returned list holds
\* exactly the tweets served on the 200 pages, no id twice, in the order in
\* which the ids were first served
C1_ReturnedUnion ==
    (op = "user_timeline" /\ pc = "returned" /\ r.status = 200) =>
        /\ { ret[i] : i \in DOMAIN ret } = served
        /\ \A i, j \in DOMAIN ret : ret[i].id = ret[j].id => i = j
        /\ IdList(ret) = order

\* tweets gathered over several pages, not in descending order of id
C1_Witness ==
    /\ op = "user_timeline" /\ pc = "returned" /\ r.status = 200
    /\ Len(ret) >= 2 /\ nreq >= 3
    /\ ret[1].id < ret[2].id

\* C2: a 200 page that adds no id to the id-set makes user_timeline return
\* the list accumulated so far at once, and no step (so no request) follows
\* a return
C2_NoNewIdsStops ==
    [][ /\ pc = "loop"
        /\ (op = "user_timeline" /\ r'.status = 200 /\ nreq' = nreq + 1
              /\ IdsOf(r'.body) \subseteq ids)
            => (pc' = "returned" /\ ret' = tweets /\ tweets' = tweets) ]_vars

\* the last page repeats tweets already gathered
C2_Witness ==
    /\ op = "user_timeline" /\ pc = "returned" /\ r.status = 200
    /\ r.body # <<>> /\ Len(ret) >= 2
\* C3: a 401, 403 or 404 answer makes user_timeline return the tweets
\* gathered before it, normally, whatever tries is
C3_AbsentReturnsGathered ==
    [][ (op = "user_timeline" /\ pc = "loop" /\ nreq' = nreq + 1
          /\ r'.status \in {401, 403, 404})
        => (pc' = "returned" /\ ret' = tweets) ]_vars

C5_ShowReturnsPair ==
    [][ (op = "users_show" /\ pc = "loop" /\ nreq' = nreq + 1
          /\ r'.status \in {200, 403, 404})
        => (pc' = "returned" /\ ret' = <<r'.status, r'.body>>) ]_vars

\* the headers check_rate_limit was called with hold all three headers
AllHeaders == DOMAIN r.headers = HeaderNames

\* C6: with the three headers present check_rate_limit asks for a sleep iff
\* remaining <= 5, and then for reset - date + 60 seconds; remaining 3 and
\* reset = date + 100 ask for 160 seconds
C6_SleepIffLow ==
    (op = "check_rate_limit" /\ pc # "call" /\ AllHeaders) =>
        LET remain == r.headers["x-rate-limit-remaining"]
            now == r.headers["date"]
            reset == r.headers["x-rate-limit-reset"]
        IN /\ crl.sleeps # <<>> <=> remain <= 5
           /\ remain <= 5 => crl.sleeps = <<reset - now + 60>>
           /\ (remain = 3 /\ reset = now + 100) => crl.sleeps = <<160>>
           /\ ~crl.logged

\* remaining = 5, the low-water mark itself, with the window reset 100 s ahead
C6_Witness ==
    /\ op = "check_rate_limit" /\ pc = "returned" /\ AllHeaders
    /\ r.headers["x-rate-limit-remaining"] = 5
    /\ r.headers["x-rate-limit-reset"] = r.headers["date"] + 100
    /\ crl.sleeps = <<160>>

\* C7: check_rate_limit never asks for a negative sleep; when reset - date +
\* 60 is negative it sleeps 0 seconds and returns
C7_SleepNotNegative ==
    (op = "check_rate_limit" /\ pc # "call") =>
        /\ \A i \in DOMAIN crl.sleeps : crl.sleeps[i] >= 0
        /\ (AllHeaders /\ r.headers["x-rate-limit-remaining"] <= 5
              /\ r.headers["x-rate-limit-reset"] - r.headers["date"] + 60 < 0)
            => (crl.sleeps = <<0>> /\ pc = "returned")

\* C8 as stated: whenever one of the three headers is absent
\* check_rate_limit sleeps 60 seconds, reports it and returns, leaving tries
\* alone
C8_AnyAbsentHeader ==
    [][ (op = "check_rate_limit" /\ pc = "call" /\ ~AllHeaders) =>
          /\ crl'.sleeps = <<60>> /\ crl'.logged
          /\ pc' = "returned" /\ tries' = tries ]_vars

\* a header check_rate_limit reads is absent: remaining, or with
\* remaining <= 5 the date or the reset time
ReadHeaderAbsent ==
    \/ "x-rate-limit-remaining" \notin DOMAIN r.headers
    \/ /\ r.headers["x-rate-limit-remaining"] <= 5
       /\ \/ "date" \notin DOMAIN r.headers
          \/ "x-rate-limit-reset" \notin DOMAIN r.headers

\* C8 amended: whenever a header that check_rate_limit reads is absent (the
\* remaining-calls header, or with remaining <= 5 the date or the reset
\* header) it sleeps exactly 60 seconds, reports it and returns without
\* raising, leaving tries alone; with remaining > 5 the other two headers
\* are not read, and their absence causes no sleep and no report
C8_ReadHeaderAbsent ==
    [][ (op = "check_rate_limit" /\ pc = "call") =>
          /\ ReadHeaderAbsent =>
                /\ crl'.sleeps = <<60>> /\ crl'.logged /\ ~crl'.raised
                /\ pc' = "returned" /\ tries' = tries
          /\ (~ReadHeaderAbsent /\ ~AllHeaders) =>
                /\ crl'.sleeps = <<>> /\ ~crl'.logged /\ ~crl'.raised
                /\ pc' = "returned" /\ tries' = tries ]_vars

\* remaining <= 5 and date present, the reset header absent
C8_Witness ==
    /\ op = "check_rate_limit" /\ pc = "returned"
    /\ DOMAIN r.headers = {"x-rate-limit-remaining", "date"}
    /\ r.headers["x-rate-limit-remaining"] <= 5
    /\ crl.sleeps = <<60>> /\ crl.logged

\* C9: a 200 answer makes users_lookup return the parsed list as it is, a
\* 403 or 404 answer the empty list, both after one check_rate_limit call and
\* whatever tries is
C9_LookupReturns ==
    [][ (op = "users_lookup" /\ pc = "loop" /\ nreq' = nreq + 1
          /\ r'.status \in {200, 403, 404})
        => /\ crl'.called
           /\ pc' = "returned"
           /\ ret' = IF r'.status = 200 THEN r'.body ELSE <<>> ]_vars

\* C10: in the three operations tries = MAX_RETRY at the loop test leads to
\* the fatal path with no request and no value handed to the caller, and
\* no operation returns with tries = MAX_RETRY
C10_ExhaustionIsFatal ==
    [][ /\ (pc = "loop" /\ tries = MAX_RETRY)
            => (pc' = "fatal" /\ ret' = <<>> /\ ret = <<>> /\ nreq' = nreq)
        /\ pc' = "fatal" => tries = MAX_RETRY
        /\ pc' = "returned" => tries' < MAX_RETRY ]_vars

\* user_timeline gave up with tweets already gathered
C10_Witness ==
    /\ op = "user_timeline" /\ pc = "fatal" /\ tries = MAX_RETRY
    /\ tweets # <<>> /\ ret = <<>>

\* a pass of the loop in which a response was received
GotResponse == pc = "loop" /\ nreq' = nreq + 1

\* a 200 page of user_timeline that brought a new id
Progress == op = "user_timeline" /\ GotResponse /\ r'.status = 200 /\ order' # order

\* a response that the operation retries
Retryable ==
    /\ GotResponse
    /\ r'.status \notin {200, 403, 404}
    /\ op = "user_timeline" => r'.status # 401

\* C11: the SystemExit raised when the retries are exhausted ends the process
\* with an exit status other than 0, in the three operations
C11_FatalExitNonZero ==
    pc = "fatal" => SystemExit_code # 0

\* C12: an operation ends only by a return or by the SystemExit of the
\* exhausted retries; no other exception leaves it
C12_OnlyReturnOrFatal ==
    pc \in {"loop", "returned", "fatal"}

\* C13: in user_timeline every 200 page that brings a new id resets tries to
\* 0, tries counts the responses retried since the last such page, and the
\* fatal path is taken only after MAX_RETRY retried responses in a row
C13_ProgressResetsTries ==
    [][ op = "user_timeline" =>
          /\ Progress => (tries' = 0 /\ streak' = 0)
          /\ pc = "loop" => tries = streak
          /\ pc' = "fatal" => (tries = MAX_RETRY /\ streak = MAX_RETRY)
          /\ streak < MAX_RETRY => pc' # "fatal" ]_vars

\* more than MAX_RETRY responses were retried in all, never MAX_RETRY in a
\* row, and user_timeline returned
C13_Witness ==
    /\ op = "user_timeline" /\ pc = "returned"
    /\ nreq - Cardinality(ids) - 1 > MAX_RETRY

\* C14: in the three operations 0 <= tries <= MAX_RETRY; a request is made
\* only while tries < MAX_RETRY; tries changes only by +1 on a retried
\* response or to 0 on a user_timeline page with a new id; the fatal path is
\* taken exactly when tries = MAX_RETRY; users_lookup and users_show make at
\* most MAX_RETRY requests
C14_TriesBounded ==
    [][ /\ tries \in 0..MAX_RETRY /\ tries' \in 0..MAX_RETRY
        /\ nreq' # nreq => (nreq' = nreq + 1 /\ tries < MAX_RETRY)
        /\ tries' # tries =>
              \/ tries' = tries + 1 /\ Retryable
              \/ tries' = 0 /\ Progress
        /\ pc' = "fatal" <=> (pc = "loop" /\ tries = MAX_RETRY)
        /\ op \in {"users_lookup", "users_show"} => nreq' <= MAX_RETRY ]_vars

\* users_show gave up after MAX_RETRY requests
C14_Witness ==
    /\ op = "users_show" /\ pc = "fatal"
    /\ tries = MAX_RETRY /\ nreq = MAX_RETRY

\* C15: in user_timeline ids never loses an id, ids is the set of the ids of
\* the tweets in the list, and the list is as long as ids is large
C15_IdsMatchTweets ==
    [][ op = "user_timeline" =>
          /\ ids \subseteq ids'
          /\ ids' = IdsOf(tweets')
          /\ Len(tweets') = Cardinality(ids') ]_vars

\* two pages brought a tweet each and a retried response came in between
C15_Witness ==
    /\ op = "user_timeline" /\ pc = "loop"
    /\ Len(tweets) >= 2 /\ nreq >= 3

\* C16 as stated: max_id is absent on the first request and equals the
\* smallest id gathered on every later request
C16_CursorOnLaterRequests ==
    (op = "user_timeline" /\ pc = "loop" /\ timeline_while(tries)) =>
        IF nreq = 0 THEN max_id = {}
        ELSE ids # {} /\ max_id = {Min(ids)}

\* C16 amended: max_id is absent on every request made before an id was
\* gathered (the first request and the retries of it), it equals the
\* smallest id gathered on every request after that, and it never increases
C16_CursorIsMinId ==
    [][ op = "user_timeline" =>
          /\ max_id = (IF ids = {} THEN {} ELSE {Min(ids)})
          /\ pc' = "loop" => max_id' = (IF ids' = {} THEN {} ELSE {Min(ids')})
          /\ max_id # {} => (max_id' # {} /\ Min(max_id') <= Min(max_id)) ]_vars

\* the cursor moved down from a larger id to id 1
C16_Witness ==
    /\ op = "user_timeline" /\ pc = "loop" /\ timeline_while(tries)
    /\ Len(order) >= 2 /\ order[1] > 1 /\ max_id = {1}

\* C17: a retried response leaves max_id, tweets, ids and tcount of
\* user_timeline as they were and adds exactly 1 to tries
C17_RetryFrame ==
    [][ (op = "user_timeline" /\ Retryable) =>
          /\ UNCHANGED <<max_id, tweets, ids, tcount>>
          /\ tries' = tries + 1 ]_vars

\* C18: check_rate_limit is called once for every response received, in the
\* three operations, except for the 200 page of user_timeline that brings no
\* new id
C18_CheckOncePerResponse ==
    [][ GotResponse =>
          /\ crl'.called <=>
                ~(op = "user_timeline" /\ r'.status = 200 /\ order' = order)
          /\ Len(crl'.sleeps) <= 1
          /\ ~crl'.called => (pc' = "returned" /\ crl' = NoCall) ]_vars

\* user_timeline returned on a page without a new id, with no call of
\* check_rate_limit for that page
C18_Witness ==
    /\ op = "user_timeline" /\ pc = "returned" /\ r.status = 200
    /\ nreq >= 2 /\ crl = NoCall /\ tweets # <<>>

\* C19: users_lookup and users_show hand no response to the caller whose
\* status is not 200, 403 or 404: every other status is retried with 1
\* added to tries, and the status returned by users_show is 200, 403 or 404
C19_OnlyAnswersDelivered ==
    [][ (op \in {"users_lookup", "users_show"} /\ GotResponse) =>
          /\ r'.status \notin {200, 403, 404} =>
                (pc' = "loop" /\ tries' = tries + 1 /\ ret' = ret)
          /\ pc' = "returned" => r'.status \in {200, 403, 404}
          /\ (op = "users_show" /\ pc' = "returned") =>
                ret'[1] \in {200, 403, 404} ]_vars

\* the operation is over: it returned or raised SystemExit, or a sleep did
\* not complete
Terminated == pc \in {"returned", "fatal"} \/ crl.raised

\* an operation that is not over can make its next pass, users_lookup and
\* users_show make at most MAX_RETRY requests, and user_timeline makes at
\* most MAX_RETRY requests for each id it gathers (a page with a new id and
\* up to MAX_RETRY - 1 retried responses before it), then tries retried
\* requests, then one last request
RequestsBounded ==
    /\ ~Terminated => (pc = "loop" /\ ENABLED <<Next>>_vars)
    /\ op \in {"users_lookup", "users_show"} => nreq <= MAX_RETRY
    /\ op = "user_timeline" =>
          /\ Cardinality(ids) <= MaxId
          /\ nreq <= Cardinality(ids) * MAX_RETRY + tries
                       + (IF pc = "loop" \/ pc = "fatal" THEN 0 ELSE 1)
          /\ nreq <= (MaxId + 1) * MAX_RETRY

\* C20: every operation terminates, whatever the responses are, when its
\* sleeps and requests complete and the ids come from 1..MaxId: it is over
\* at some point, and until then the number of its requests stays within the
\* bounds of RequestsBounded
C20_Terminates == []RequestsBounded /\ <>Terminated

\* user_timeline returned after every id was served and responses were
\* retried
C20_Witness ==
    /\ op = "user_timeline" /\ pc = "returned"
    /\ Cardinality(ids) = MaxId /\ nreq > MaxId + 1
====
